---- MODULE Spec2Model ----
(***************************************************************************)
(* Model of the /generate_pdf request handler of app.py (qr-service).      *)
(*                                                                         *)
(* One request is a sequence of steps of generate_pdf(); the steps are     *)
(* separate actions so that concurrent requests interleave at the places   *)
(* where the handler blocks or touches an object.  Python values are       *)
(* modelled with their truthiness ("not x"), JSON request bodies with      *)
(* their type, the remote store by its rows, and PDF pages by their size   *)
(* and their sequence of drawing instructions.                             *)
(***************************************************************************)
EXTENDS Integers, Sequences, FiniteSets, TLC

\* ------------------------------------------------------------------ bounds
\* Number of concurrently served requests (SpecConc).
NumRequests == 2

\* Stand-in for the capacity of the largest QR symbol, scaled down so that a
\* short string can exceed it: qrcode.make() raises above it.
QrCapacity == 40

Requests == 1..NumRequests

\* The request the single-request specification follows.
MainRequest == CHOOSE r \in Requests : \A s \in Requests : r <= s

\* ------------------------------------------------------- Python values
\* Python's None for the string-valued columns and locals.
None == "<None>"

\* "if x" / "not x" for a value that is None or a str.
Truthy(v) == v # None /\ v # ""

\* Python's "a or b".
Or(a, b) == IF Truthy(a) THEN a ELSE b

\* ----------------------------------------------------------- JSON values
\* A parsed JSON value: its type t, its text v, and, for an object, the
\* member "property_id" (pid; JAbsent when the object has no such key).
JAbsent == [t |-> "absent", v |-> None]
JNull == [t |-> "null", v |-> None]
JStr(s) == [t |-> "str", v |-> s]
JNum(s) == [t |-> "num", v |-> s]
JBool(s) == [t |-> "bool", v |-> s]
JList(s) == [t |-> "list", v |-> s]
JObj(s, p) == [t |-> "obj", v |-> s, pid |-> p]

\* Truthiness of a parsed JSON value in Python: None, False, 0, "", [] and {}
\* are falsy.
JTruthy(j) ==
    CASE j.t = "null" -> FALSE
      [] j.t = "absent" -> FALSE
      [] j.t = "bool" -> j.v = "true"
      [] j.t = "num" -> j.v # "0"
      [] j.t = "str" -> j.v # ""
      [] j.t = "list" -> j.v # "[]"
      [] j.t = "obj" -> j.v # "{}"

\* str(x) as an f-string or a query filter renders a parsed JSON scalar.
PyStr(j) ==
    CASE j.t = "null" -> "None"
      [] j.t = "bool" -> (IF j.v = "true" THEN "True" ELSE "False")
      [] OTHER -> j.v

\* type(x).__name__ of a parsed JSON value.
PyTypeName(j) ==
    CASE j.t = "null" -> "NoneType"
      [] j.t = "bool" -> "bool"
      [] j.t = "num" -> "int"
      [] j.t = "str" -> "str"
      [] j.t = "list" -> "list"
      [] OTHER -> "dict"

\* ------------------------------------------------------------- the store
\* Rows of the "properties" collection (columns of the select, line 67).
LongUrl == "https://qr.example/0123456789012345678901234567890123456789"

PropertiesRows == {
    [id |-> "p1", property_code |-> "A101", property_name |-> "Oak Court",
     qr_url |-> "https://qr.example/p1", landing_page_id |-> None],
    [id |-> "p2", property_code |-> "", property_name |-> "Elm Row",
     qr_url |-> None, landing_page_id |-> "lp1"],
    [id |-> "p3", property_code |-> None, property_name |-> None,
     qr_url |-> "", landing_page_id |-> "lp2"],
    [id |-> "p4", property_code |-> "B7", property_name |-> "",
     qr_url |-> None, landing_page_id |-> None],
    [id |-> "p5", property_code |-> "C9", property_name |-> "Pine Walk",
     qr_url |-> None, landing_page_id |-> "lp9"],
    [id |-> "p6", property_code |-> "D4", property_name |-> "Ash Yard",
     qr_url |-> LongUrl, landing_page_id |-> "lp1"],
    [id |-> "p7", property_code |-> "E5", property_name |-> "Fir Lane",
     qr_url |-> "https://qr.example/p7", landing_page_id |-> "lp3"] }

\* Rows of the "landing_pages" collection ("lp9" is referenced but absent).
LandingPagesRows == {
    [id |-> "lp1", url |-> "https://lp.example/1"],
    [id |-> "lp2", url |-> None],
    [id |-> "lp3", url |-> ""] }

\* The placeholder a local holds before the fetch assigns it.
NoRow == [id |-> None, property_code |-> None, property_name |-> None,
          qr_url |-> None, landing_page_id |-> None]

\* The identifiers of the concurrent requests: request r posts PropertyIds[r].
PropertyIds == <<"p1", "p2", "p4", "p7", "p3">>

\* ...eq("id", x): the rows whose id equals the filter value.
PropertiesMatching(id) == {row \in PropertiesRows : row.id = id}

LandingPagesMatching(id) == {row \in LandingPagesRows : row.id = id}

\* ---------------------------------------------------------- request bodies
\* What request.get_json() can see: no body (or not JSON content), a body that
\* does not parse, or a JSON value.
BodyAbsent == [kind |-> "absent", json |-> JNull]
BodyUnparsable == [kind |-> "unparsable", json |-> JNull]
BodyJson(j) == [kind |-> "json", json |-> j]

IdentifierValues ==
    {JNull, JStr(""), JNum("0"), JBool("false"), JList("[]"),
     JNum("7"), JBool("true"), JStr("nonexistent-id")}
    \cup {JStr(row.id) : row \in PropertiesRows}

Bodies ==
    {BodyAbsent, BodyUnparsable}
    \cup {BodyJson(j) : j \in {JNull, JNum("0"), JStr(""), JList("[]"),
                               JBool("false"), JObj("{}", JAbsent),
                               JObj("{other}", JAbsent),
                               JList("[1]"), JStr("p1"), JNum("7"),
                               JBool("true")}}
    \cup {BodyJson(JObj("{property_id}", p)) : p \in IdentifierValues}

\* ------------------------------------------------------------------ pages
\* reportlab.lib.pagesizes.letter (line 10; "letter is 612x792 points").
LetterWidth == 612
LetterHeight == 792
letter == <<LetterWidth, LetterHeight>>
\* A page size other than letter (ISO A4, in points).
A4 == <<595, 842>>

\* Overlay coordinates (lines 144-155).
text_x == 72
text_y_name == 700
text_y_code == 680
font_size == 13
qr_x == 430
qr_y == 560
qr_size == 150

\* One drawing instruction of a page's content stream.
TextOp(x, y, s) ==
    [op |-> "drawString", x |-> x, y |-> y, text |-> s,
     width |-> 0, height |-> 0, font |-> "Helvetica-Bold", size |-> font_size]

ImageOp(img, x, y, w, h) ==
    [op |-> "drawImage", x |-> x, y |-> y, text |-> img.data,
     width |-> w, height |-> h, font |-> None, size |-> 0]

ArtOp ==
    [op |-> "template", x |-> 0, y |-> 0, text |-> "vss-template",
     width |-> 0, height |-> 0, font |-> None, size |-> 0]

EmptyPage == [size |-> <<0, 0>>, ops |-> <<>>]

\* ------------------------------------------------------ the template file
\* vss-template.pdf as the process finds it: absent, present but not a PDF,
\* a PDF without pages, a one-page PDF (letter or A4), or a one-page PDF whose
\* page content stream or whose indirect objects are damaged.
TemplateKinds ==
    {"missing", "unreadable", "nopages", "letter", "a4", "badstream", "badobj"}

\* os.path.exists(TEMPLATE_PATH)
TemplateExists(k) == k # "missing"

\* PdfReader(TEMPLATE_PATH).pages
TemplatePages(k) ==
    CASE k = "nopages" -> <<>>
      [] k = "a4" -> <<[size |-> A4, ops |-> <<ArtOp>>]>>
      [] OTHER -> <<[size |-> letter, ops |-> <<ArtOp>>]>>

\* ------------------------------------------------------------ QR encoding
NoImage == [kind |-> "none", data |-> None]

\* qrcode.make(url) wrapped in an ImageReader: the raster carries the text.
\* Above the symbol capacity qrcode raises DataOverflowError.
QrFits(url) == Len(url) <= QrCapacity

\* _qr_image_reader(url)
_qr_image_reader(url) == [kind |-> "qr", data |-> url]

DEFAULT_URL == "https://app.applyfastnow.com"

\* ----------------------------------------------------------------- state
VARIABLES
    template,        \* the kind of file at TEMPLATE_PATH
    pc,              \* pc[r]: the handler's position in request r
    body,            \* body[r]: the request body as posted
    property_id,     \* the handler's locals, per request
    prop,
    property_code,
    property_name,
    target_url,
    can,             \* the canvas: instructions drawn so far
    qr_reader,
    overlay_packet,  \* the saved overlay page
    base_page,       \* base_page[o]: first page of reader object o
    out_pdf,
    response,        \* response[r]: what the handler returned
    events           \* events[r]: the steps request r has performed

vars == <<template, pc, body, property_id, prop, property_code, property_name,
          target_url, can, qr_reader, overlay_packet, base_page, out_pdf,
          response, events>>

locals == <<property_id, prop, property_code, property_name, target_url, can,
            qr_reader, overlay_packet, base_page, out_pdf>>

NoResponse ==
    [status |-> 0, kind |-> "none", error |-> None, mimetype |-> None,
     as_attachment |-> FALSE, download_name |-> None, data |-> EmptyPage]

\* jsonify({"error": msg}), status
JsonError(msg, status) ==
    [status |-> status, kind |-> "json", error |-> msg,
     mimetype |-> "application/json", as_attachment |-> FALSE,
     download_name |-> None, data |-> EmptyPage]

\* send_file(out, mimetype=..., as_attachment=True, download_name=...)
send_file(out, mimetype, name) ==
    [status |-> 200, kind |-> "file", error |-> None, mimetype |-> mimetype,
     as_attachment |-> TRUE, download_name |-> name, data |-> out]

Init ==
    /\ template \in TemplateKinds
    /\ pc = [r \in Requests |-> "idle"]
    /\ body = [r \in Requests |-> BodyAbsent]
    /\ property_id = [r \in Requests |-> JNull]
    /\ prop = [r \in Requests |-> NoRow]
    /\ property_code = [r \in Requests |-> None]
    /\ property_name = [r \in Requests |-> None]
    /\ target_url = [r \in Requests |-> None]
    /\ can = [r \in Requests |-> <<>>]
    /\ qr_reader = [r \in Requests |-> NoImage]
    /\ overlay_packet = [r \in Requests |-> EmptyPage]
    /\ base_page = [o \in Requests |-> EmptyPage]
    /\ out_pdf = [r \in Requests |-> EmptyPage]
    /\ response = [r \in Requests |-> NoResponse]
    /\ events = [r \in Requests |-> <<>>]

\* ------------------------------------------------------------ the handler
\* The step names, in the order of the handler's text.
Log(r, e) == events' = [events EXCEPT ![r] = Append(@, e)]

Log2(r, e1, e2) == events' = [events EXCEPT ![r] = Append(Append(@, e1), e2)]

\* "return X" and "except Exception as e: return jsonify(...), 500": the
\* request ends with the response.
Return(r, resp) ==
    /\ response' = [response EXCEPT ![r] = resp]
    /\ pc' = [pc EXCEPT ![r] = "done"]

Goto(r, p) ==
    /\ pc' = [pc EXCEPT ![r] = p]
    /\ UNCHANGED response

\* A POST /generate_pdf arrives with body b.
Receive(r, b) ==
    /\ pc[r] = "idle"
    /\ body' = [body EXCEPT ![r] = b]
    /\ Goto(r, "received")
    /\ Log(r, "receive")
    /\ UNCHANGED <<template, locals>>

\* request.get_json(silent=True): None unless the body parses.
get_json(b) == IF b.kind = "json" THEN b.json ELSE JNull

\* Lines 108-112.
Validate(r) ==
    /\ pc[r] = "received"
    /\ Log(r, "validate")
    /\ LET parsed == get_json(body[r])
           data == IF JTruthy(parsed) THEN parsed ELSE JObj("{}", JAbsent)
           pid == IF data.pid.t = "absent" THEN JNull ELSE data.pid
       IN IF data.t # "obj"
          THEN \* data.get raises AttributeError, caught on line 188
               /\ Return(r, JsonError("'" \o PyTypeName(data)
                                      \o "' object has no attribute 'get'", 500))
               /\ UNCHANGED property_id
          ELSE IF ~JTruthy(pid)
          THEN /\ Return(r, JsonError("Missing property_id", 400))
               /\ property_id' = [property_id EXCEPT ![r] = pid]
          ELSE /\ Goto(r, "validated")
               /\ property_id' = [property_id EXCEPT ![r] = pid]
    /\ UNCHANGED <<template, body, prop, property_code, property_name,
                   target_url, can, qr_reader, overlay_packet, base_page,
                   out_pdf>>

\* Lines 114-115.
CheckTemplate(r) ==
    /\ pc[r] = "validated"
    /\ Log(r, "template_exists")
    /\ IF ~TemplateExists(template)
       THEN Return(r, JsonError("Template not found at vss-template.pdf", 500))
       ELSE Goto(r, "template_ok")
    /\ UNCHANGED <<template, body, locals>>

\* ...single().execute(): the store is asked for exactly one object.  With one
\* matching row the row is the data.  With none the store refuses and
\* execute() raises APIError; a client that hands back empty data instead is
\* what the "if not prop" of line 119 provides for.  Any call can also fail on
\* the way (network, non-2xx answer).
UpstreamFailure == "upstream request failed"

NoRowsError == "JSON object requested, multiple (or no) rows returned"

SingleOutcomes(rows, nodata) ==
    {[raised |-> TRUE, found |-> FALSE, data |-> nodata,
      error |-> UpstreamFailure]}
    \cup (IF Cardinality(rows) = 1
          THEN {[raised |-> FALSE, found |-> TRUE, data |-> row,
                 error |-> None] : row \in rows}
          ELSE {[raised |-> TRUE, found |-> FALSE, data |-> nodata,
                 error |-> NoRowsError],
                [raised |-> FALSE, found |-> FALSE, data |-> nodata,
                 error |-> None]})

\* _fetch_property_row(property_id), lines 60-70.
_fetch_property_row(pid) == SingleOutcomes(PropertiesMatching(PyStr(pid)), NoRow)

\* Lines 117-123.
FetchProperty(r) ==
    /\ pc[r] = "template_ok"
    /\ Log(r, "lookup_properties")
    /\ \E o \in _fetch_property_row(property_id[r]) :
          IF o.raised
          THEN /\ Return(r, JsonError(o.error, 500))
               /\ UNCHANGED <<prop, property_code, property_name>>
          ELSE IF ~o.found
          THEN /\ Return(r, JsonError("No property found for id '"
                                      \o PyStr(property_id[r]) \o "'", 404))
               /\ UNCHANGED <<prop, property_code, property_name>>
          ELSE /\ Goto(r, "fetched")
               /\ prop' = [prop EXCEPT ![r] = o.data]
               /\ property_code' =
                      [property_code EXCEPT ![r] = Or(o.data.property_code, "")]
               /\ property_name' =
                      [property_name EXCEPT ![r] = Or(o.data.property_name, "")]
    /\ UNCHANGED <<template, body, property_id, target_url, can, qr_reader,
                   overlay_packet, base_page, out_pdf>>

NoLandingPage == [id |-> None, url |-> None]

\* The lookup made for every row that names a landing page.
NeedsLandingPageAlways(row) == Truthy(row.landing_page_id)

\* Lines 127 and 74: the landing page is looked up when the row has no qr_url
\* and names a landing page.
NeedsLandingPage(row) == ~Truthy(row.qr_url) /\ Truthy(row.landing_page_id)

\* Lines 79-81: the url of the answer, or None.
LandingPageUrl(o) ==
    IF o.found /\ Truthy(o.data.url) THEN o.data.url ELSE None

\* The resolution without its final fallback.
ResolveUrlNoDefault(qr_url, landing_url) ==
    IF Truthy(qr_url) THEN qr_url ELSE landing_url

\* Lines 126-132: properties.qr_url, else the landing page's url, else the
\* default.
ResolveUrl(qr_url, landing_url) ==
    IF Truthy(qr_url) THEN qr_url
    ELSE IF Truthy(landing_url) THEN landing_url
    ELSE DEFAULT_URL

\* Lines 125-132, with _fetch_landing_page_url (lines 73-81).
ResolveTargetUrl(r) ==
    /\ pc[r] = "fetched"
    /\ IF NeedsLandingPage(prop[r])
       THEN /\ Log(r, "lookup_landing_pages")
            /\ \E o \in SingleOutcomes(
                           LandingPagesMatching(prop[r].landing_page_id),
                           NoLandingPage) :
                  IF o.raised
                  THEN /\ Return(r, JsonError(o.error, 500))
                       /\ UNCHANGED target_url
                  ELSE /\ Goto(r, "resolved")
                       /\ target_url' = [target_url EXCEPT ![r] =
                              ResolveUrl(prop[r].qr_url, LandingPageUrl(o))]
       ELSE /\ UNCHANGED events
            /\ Goto(r, "resolved")
            /\ target_url' = [target_url EXCEPT ![r] =
                   ResolveUrl(prop[r].qr_url, None)]
    /\ UNCHANGED <<template, body, property_id, prop, property_code,
                   property_name, can, qr_reader, overlay_packet, base_page,
                   out_pdf>>

\* Lines 149-150: the two lines of text.
NameLine(name) == "Property: " \o name

CodeLine(code) == "Code: " \o code

\* Lines 137-150: a fresh canvas, and the two drawString calls.
DrawText(r) ==
    /\ pc[r] = "resolved"
    /\ Log(r, "draw_text")
    /\ can' = [can EXCEPT ![r] =
                  <<TextOp(text_x, text_y_name, NameLine(property_name[r])),
                    TextOp(text_x, text_y_code, CodeLine(property_code[r]))>>]
    /\ Goto(r, "text_drawn")
    /\ UNCHANGED <<template, body, property_id, prop, property_code,
                   property_name, target_url, qr_reader, overlay_packet,
                   base_page, out_pdf>>

\* Line 157.
EncodeQR(r) ==
    /\ pc[r] = "text_drawn"
    /\ Log(r, "qr_encode")
    /\ IF QrFits(target_url[r])
       THEN /\ qr_reader' = [qr_reader EXCEPT ![r] = _qr_image_reader(target_url[r])]
            /\ Goto(r, "encoded")
       ELSE /\ Return(r, JsonError("DataOverflowError", 500))
            /\ UNCHANGED qr_reader
    /\ UNCHANGED <<template, body, property_id, prop, property_code,
                   property_name, target_url, can, overlay_packet, base_page,
                   out_pdf>>

\* The image drawn, the canvas never saved.
DrawImage_NoSave(r) ==
    /\ pc[r] = "encoded"
    /\ Log(r, "draw_image")
    /\ can' = [can EXCEPT ![r] =
                  Append(@, ImageOp(qr_reader[r], qr_x, qr_y, qr_size, qr_size))]
    /\ Goto(r, "composed")
    /\ UNCHANGED <<template, body, property_id, prop, property_code,
                   property_name, target_url, qr_reader, overlay_packet,
                   base_page, out_pdf>>

\* Lines 158-161: the image is drawn and the canvas saved into the packet.
DrawImage(r) ==
    /\ pc[r] = "encoded"
    /\ Log2(r, "draw_image", "save")
    /\ LET drawn == Append(can[r], ImageOp(qr_reader[r], qr_x, qr_y, qr_size, qr_size))
       IN /\ can' = [can EXCEPT ![r] = drawn]
          /\ overlay_packet' = [overlay_packet EXCEPT ![r] =
                                   [size |-> letter, ops |-> drawn]]
    /\ Goto(r, "composed")
    /\ UNCHANGED <<template, body, property_id, prop, property_code,
                   property_name, target_url, qr_reader, base_page, out_pdf>>

\* One reader kept for the whole process.
SharedReader(r) == MainRequest

\* base_reader = PdfReader(TEMPLATE_PATH): the reader object, and with it the
\* page objects it hands out, is made anew by each request.
ReaderOf(r) == r

\* Lines 164-166 and 169.
ReadTemplate(r) ==
    /\ pc[r] = "composed"
    /\ Log(r, "template_read")
    /\ IF template = "unreadable"
       THEN /\ Return(r, JsonError("PdfReadError", 500))
            /\ UNCHANGED base_page
       ELSE IF TemplatePages(template) = <<>>
       THEN /\ Return(r, JsonError("Template has no pages", 500))
            /\ UNCHANGED base_page
       ELSE /\ Goto(r, "template_read")
            /\ base_page' = [base_page EXCEPT ![ReaderOf(r)] =
                                TemplatePages(template)[1]]
    /\ UNCHANGED <<template, body, property_id, prop, property_code,
                   property_name, target_url, can, qr_reader, overlay_packet,
                   out_pdf>>

\* PageObject.merge_page(page2): page2's content is appended to the page's
\* own; the page keeps its own media box.  No geometry is compared.
merge_page(base, page2) ==
    [size |-> base.size, ops |-> base.ops \o page2.ops]

\* Lines 168-170.
Merge(r) ==
    /\ pc[r] = "template_read"
    /\ Log(r, "merge")
    /\ IF template = "badstream"
       THEN /\ Return(r, JsonError("PdfReadError", 500))
            /\ UNCHANGED base_page
       ELSE /\ Goto(r, "merged")
            /\ base_page' = [base_page EXCEPT ![ReaderOf(r)] =
                                merge_page(@, overlay_packet[r])]
    /\ UNCHANGED <<template, body, property_id, prop, property_code,
                   property_name, target_url, can, qr_reader, overlay_packet,
                   out_pdf>>

\* What the framework answers when an exception leaves the handler.
FrameworkFault ==
    [status |-> 500, kind |-> "html", error |-> None, mimetype |-> "text/html",
     as_attachment |-> FALSE, download_name |-> None, data |-> EmptyPage]

\* The write outside the try block.
Write_Uncaught(r) ==
    /\ pc[r] = "merged"
    /\ Log(r, "write")
    /\ IF template = "badobj"
       THEN /\ Return(r, FrameworkFault)
            /\ UNCHANGED out_pdf
       ELSE /\ Goto(r, "written")
            /\ out_pdf' = [out_pdf EXCEPT ![r] = base_page[ReaderOf(r)]]
    /\ UNCHANGED <<template, body, property_id, prop, property_code,
                   property_name, target_url, can, qr_reader, overlay_packet,
                   base_page>>

\* Lines 172-177.
Write(r) ==
    /\ pc[r] = "merged"
    /\ Log(r, "write")
    /\ IF template = "badobj"
       THEN /\ Return(r, JsonError("PdfReadError", 500))
            /\ UNCHANGED out_pdf
       ELSE /\ Goto(r, "written")
            /\ out_pdf' = [out_pdf EXCEPT ![r] = base_page[ReaderOf(r)]]
    /\ UNCHANGED <<template, body, property_id, prop, property_code,
                   property_name, target_url, can, qr_reader, overlay_packet,
                   base_page>>

\* The file named after the code alone.
FilenameCodeOnly(code, pid) == code \o ".pdf"

\* Line 180.
Filename(code, pid) == Or(code, PyStr(pid)) \o ".pdf"

\* Lines 179-186.
Respond(r) ==
    /\ pc[r] = "written"
    /\ Log(r, "send")
    /\ Return(r, send_file(out_pdf[r], "application/pdf",
                           Filename(property_code[r], property_id[r])))
    /\ UNCHANGED <<template, body, locals>>

\* ------------------------------------------------------- specifications
\* One request, any body.
Next ==
    \/ \E b \in Bodies : Receive(MainRequest, b)
    \/ Validate(MainRequest)
    \/ CheckTemplate(MainRequest)
    \/ FetchProperty(MainRequest)
    \/ ResolveTargetUrl(MainRequest)
    \/ DrawText(MainRequest)
    \/ EncodeQR(MainRequest)
    \/ DrawImage(MainRequest)
    \/ ReadTemplate(MainRequest)
    \/ Merge(MainRequest)
    \/ Write(MainRequest)
    \/ Respond(MainRequest)

Spec == Init /\ [][Next]_vars

\* The body of the r-th concurrent request: its own, existing record.
ConcBody(r) == BodyJson(JObj("{property_id}", JStr(PropertyIds[r])))

\* NumRequests requests for distinct records, served concurrently.
NextConc ==
    \/ \E r \in Requests : Receive(r, ConcBody(r))
    \/ \E r \in Requests : Validate(r)
    \/ \E r \in Requests : CheckTemplate(r)
    \/ \E r \in Requests : FetchProperty(r)
    \/ \E r \in Requests : ResolveTargetUrl(r)
    \/ \E r \in Requests : DrawText(r)
    \/ \E r \in Requests : EncodeQR(r)
    \/ \E r \in Requests : DrawImage(r)
    \/ \E r \in Requests : ReadTemplate(r)
    \/ \E r \in Requests : Merge(r)
    \/ \E r \in Requests : Write(r)
    \/ \E r \in Requests : Respond(r)

SpecConc == Init /\ [][NextConc]_vars

\* ------------------------------------------------------------ properties
Has(seq, e) == \E i \in DOMAIN seq : seq[i] = e

Count(seq, e) == Cardinality({i \in DOMAIN seq : seq[i] = e})

\* Every b in seq has an a before it.
Before(seq, a, b) ==
    \A j \in DOMAIN seq : seq[j] = b => \E i \in 1..(j - 1) : seq[i] = a

IsPrefix(s, t) == Len(s) <= Len(t) /\ \A i \in DOMAIN s : s[i] = t[i]

Last(seq) == seq[Len(seq)]

\* The body carries a non-empty property_id.
HasIdentifier(b) ==
    /\ b.kind = "json"
    /\ b.json.t = "obj"
    /\ JTruthy(b.json.pid)

\* C1: a request whose body is absent, unparsable, or has a missing or empty
\* property_id is answered 400 {"error": "Missing property_id"}, and no
\* properties or landing_pages lookup is issued and the template is not
\* touched.
C1_MissingIdRejected ==
    \A r \in Requests :
        (pc[r] = "done" /\ ~HasIdentifier(body[r])) =>
            /\ response[r].status = 400
            /\ response[r].error = "Missing property_id"
            /\ ~Has(events[r], "lookup_properties")
            /\ ~Has(events[r], "lookup_landing_pages")
            /\ ~Has(events[r], "template_exists")
            /\ ~Has(events[r], "template_read")

\* C2: a request with a non-empty property_id whose properties lookup finds
\* zero rows (the call itself not failing on the way) is answered 404 with a
\* JSON error body.
C2_NoRowGives404 ==
    \A r \in Requests :
        (/\ pc[r] = "done"
         /\ Has(events[r], "lookup_properties")
         /\ PropertiesMatching(PyStr(property_id[r])) = {}
         /\ response[r].error # UpstreamFailure) =>
            /\ response[r].status = 404
            /\ response[r].kind = "json"

\* The texts the precedence allows for a row: its qr_url; else the url of its
\* landing page; else the default.
ExpectedUrls(row) ==
    LET linked == {l.url : l \in {l \in LandingPagesRows :
                       l.id = row.landing_page_id /\ Truthy(l.url)}}
    IN IF Truthy(row.qr_url) THEN {row.qr_url}
       ELSE IF Truthy(row.landing_page_id) /\ linked # {} THEN linked
       ELSE {DEFAULT_URL}

\* C3: in every request that reaches QR encoding the text given to the
\* encoder is non-empty and is qr_url, else the linked landing page's url,
\* else the default URL; the raster and the document carry that text.
C3_QrTextPrecedence ==
    \A r \in Requests :
        Has(events[r], "qr_encode") =>
            /\ Truthy(target_url[r])
            /\ target_url[r] \in ExpectedUrls(prop[r])
            /\ qr_reader[r].kind = "qr" => qr_reader[r].data = target_url[r]
            /\ response[r].kind = "file" =>
                   \E i \in DOMAIN response[r].data.ops :
                       /\ response[r].data.ops[i].op = "drawImage"
                       /\ response[r].data.ops[i].text \in ExpectedUrls(prop[r])

\* A document was returned for a record with no qr_url and no landing page,
\* and its QR carries the default URL.
C3_Witness ==
    \E r \in Requests :
        /\ response[r].kind = "file"
        /\ prop[r].qr_url = None
        /\ prop[r].landing_page_id = None
        /\ qr_reader[r].data = DEFAULT_URL

\* The template page with the whole overlay on it.
Complete(page) ==
    /\ Len(page.ops) = 4
    /\ page.ops[1] = ArtOp
    /\ page.ops[2].op = "drawString"
    /\ page.ops[3].op = "drawString"
    /\ page.ops[4].op = "drawImage"

\* C4: a request ends in exactly one of a 200 response with the complete PDF
\* or a JSON error with status 400, 404 or 500; a failure of any step after
\* validation and other than "no such row" is answered 500.
C4_OneOutcome ==
    \A r \in Requests :
        /\ pc[r] # "done" => response[r] = NoResponse
        /\ pc[r] = "done" =>
              /\ \/ /\ response[r].kind = "file"
                    /\ response[r].status = 200
                    /\ response[r].error = None
                    /\ Complete(response[r].data)
                    /\ Last(events[r]) = "send"
                 \/ /\ response[r].kind = "json"
                    /\ response[r].status \in {400, 404, 500}
                    /\ Truthy(response[r].error)
                    /\ response[r].data = EmptyPage
                    /\ Last(events[r]) # "send"
              /\ response[r].status = 400 => Last(events[r]) = "validate"
              /\ response[r].status = 404 => Last(events[r]) = "lookup_properties"
              /\ Last(events[r]) \notin {"validate", "lookup_properties", "send"}
                     => response[r].status = 500

\* A failure of the write was caught and answered 500.
C4_Witness ==
    \E r \in Requests :
        /\ pc[r] = "done"
        /\ Last(events[r]) = "write"
        /\ response[r].status = 500
        /\ response[r].kind = "json"

StepOrder(withLandingPage) ==
    <<"receive", "validate", "template_exists", "lookup_properties">>
    \o (IF withLandingPage THEN <<"lookup_landing_pages">> ELSE <<>>)
    \o <<"draw_text", "qr_encode", "draw_image", "save", "template_read",
         "merge", "write", "send">>

C6_MismatchFails ==
    \A r \in Requests :
        (/\ pc[r] = "done"
         /\ Has(events[r], "template_read")
         /\ TemplatePages(template) # <<>>
         /\ TemplatePages(template)[1].size # letter) =>
            /\ response[r].status = 500
            /\ response[r].kind # "file"

\* The record the r-th concurrent request asks for.
OwnRow(r) == CHOOSE row \in PropertiesRows : row.id = PropertyIds[r]

\* C7: with concurrent requests for distinct records, each document returned
\* holds the template's art and exactly one name line, one code line and one
\* QR image, all of the request's own record.
C7_Isolation ==
    \A r \in Requests :
        response[r].kind = "file" =>
            LET ops == response[r].data.ops
                row == OwnRow(r)
            IN /\ Len(ops) = 4
               /\ ops[1] = ArtOp
               /\ ops[2].op = "drawString"
               /\ ops[2].text = NameLine(Or(row.property_name, ""))
               /\ ops[3].op = "drawString"
               /\ ops[3].text = CodeLine(Or(row.property_code, ""))
               /\ ops[4].op = "drawImage"
               /\ ops[4].text \in ExpectedUrls(row)

\* Two requests were both answered with a document.
C7_Witness ==
    \E r1, r2 \in Requests :
        /\ r1 # r2
        /\ response[r1].kind = "file"
        /\ response[r2].kind = "file"
        /\ response[r1].data # response[r2].data

\* C8: a successful response is an application/pdf attachment named
\* "<property_code>.pdf" when the record's code is non-empty and
\* "<property_id>.pdf" otherwise; the stem is never empty.
C8_AttachmentName ==
    \A r \in Requests :
        response[r].kind = "file" =>
            /\ response[r].mimetype = "application/pdf"
            /\ response[r].as_attachment
            /\ response[r].download_name =
                   (IF Truthy(prop[r].property_code)
                    THEN prop[r].property_code
                    ELSE PyStr(property_id[r])) \o ".pdf"
            /\ response[r].download_name # ".pdf"

\* A document was returned for a record without a code, named after the
\* request's identifier.
C8_Witness ==
    \E r \in Requests :
        /\ response[r].kind = "file"
        /\ ~Truthy(prop[r].property_code)
        /\ response[r].download_name = PyStr(property_id[r]) \o ".pdf"

\* C9: when the record's property_code (property_name) is empty or null the
\* composed page holds no text instruction for that field.
C9_EmptyFieldDrawsNothing ==
    \A r \in Requests :
        Has(events[r], "draw_text") =>
            /\ ~Truthy(prop[r].property_code) =>
                   ~\E i \in DOMAIN can[r] :
                       can[r][i].op = "drawString" /\ can[r][i].y = text_y_code
            /\ ~Truthy(prop[r].property_name) =>
                   ~\E i \in DOMAIN can[r] :
                       can[r][i].op = "drawString" /\ can[r][i].y = text_y_name

\* C10: a request issues at most one properties lookup and at most one
\* landing_pages lookup; the latter only after the former returned a row
\* with no qr_url and with a landing_page_id.
C10_SingleLookups ==
    \A r \in Requests :
        /\ Count(events[r], "lookup_properties") <= 1
        /\ Count(events[r], "lookup_landing_pages") <= 1
        /\ Has(events[r], "lookup_landing_pages") =>
               /\ Before(events[r], "lookup_properties", "lookup_landing_pages")
               /\ prop[r] \in PropertiesRows
               /\ ~Truthy(prop[r].qr_url)
               /\ Truthy(prop[r].landing_page_id)
        /\ (prop[r] \in PropertiesRows /\ Truthy(prop[r].qr_url)) =>
               ~Has(events[r], "lookup_landing_pages")

\* The landing page was looked up, once, and the document returned.
C10_Witness ==
    \E r \in Requests :
        /\ response[r].kind = "file"
        /\ Count(events[r], "lookup_landing_pages") = 1
        /\ Count(events[r], "lookup_properties") = 1

====
